---------------------------- MODULE Spec2Model ----------------------------
(***************************************************************************)
(* A model of moonraker's app.py: the mutable route table, the API         *)
(* registry with its fan-out to the transport adapters, the argument       *)
(* parser of the dynamic request handler, the range handling of the file   *)
(* request handler and the upload handler.                                 *)
(*                                                                         *)
(* Strings that the code takes apart are modelled by their parts: a path   *)
(* or endpoint name is [abs, segs], abs telling whether it starts with     *)
(* "/" and segs being its "/"-separated segments; a route pattern has in   *)
(* addition the capture group that register_static_file_handler appends.   *)
(***************************************************************************)
EXTENDS Integers, Sequences, FiniteSets, TLC

VARIABLES
    pattern_to_rule,            \* MutableRouter.pattern_to_rule: pattern -> rule id
    rules,                      \* MutableRouter.rules: the rule list, in match order
    next_rule,                  \* identity of the next Rule object created
    latest,                     \* history: pattern -> id of the rule of its last add_handler
    replaced,                   \* history: the rules a later add_handler of their pattern replaced
    api_cache,                  \* MoonrakerApp.api_cache: endpoint -> APIDefinition
    registered_base_handlers,   \* MoonrakerApp.registered_base_handlers
    api_transports,             \* MoonrakerApp.api_transports: adapter names, in dict order
    handlers,                   \* per adapter: the definitions it currently exposes
    last,                       \* history: the last call made on the app, and its outcome
    calls,                      \* number of calls made on the app so far
    up_pc,                      \* upload request: "start", "body" (data arriving), "done"
    targets,                    \* FileUploadHandler._targets: field name -> ValueTarget.value
    file,                       \* FileUploadHandler._file: the FileTarget
    sha256_target,              \* FileUploadHandler._sha256_target: the bytes hashed so far
    tmp_file,                   \* the file at the temporary upload path
    finalize_calls,             \* each call of finalize_upload: its arguments and how it ended
    up_response,                \* the response to the upload request
    dyn_pc,                     \* dynamic request: "idle", "received", "parsed"
    request,                    \* the request the DynamicRequestHandler was created for
    parsed,                     \* what parse_args returned for it, or that it raised
    file_pc,                    \* file request: "idle", "received", "streaming", "done"
    file_request,               \* the GET or HEAD request for a static file
    file_response,              \* status, headers and the chunks written so far
    file_stream,                \* get_content_nonblock: position, remaining, how it ended
    http_pc,                    \* dispatched request: "idle", "received", "awaiting", "done"
    http_request,               \* the request, the route's parameters and the settings
    http_trace,                 \* the collaborators the dispatcher has invoked, in order
    http_response,              \* the response to the dispatched request
    router_last                 \* the last call made on the route table itself

routerVars == <<pattern_to_rule, rules, next_rule, latest, replaced>>
appVars == <<api_cache, registered_base_handlers, api_transports, handlers, last,
            calls>>
dynVars == <<dyn_pc, request, parsed>>
fileVars == <<file_pc, file_request, file_response, file_stream>>
httpVars == <<http_pc, http_request, http_trace, http_response>>
routerLog == <<router_last>>
uploadVars == <<up_pc, targets, file, sha256_target, tmp_file, finalize_calls,
                up_response>>

(***************************************************************************)
(* Bounds of the model.                                                    *)
(***************************************************************************)
MaxRules == 5
MaxCalls == 3
MaxFileChunks == 2
MaxArgs == 2
MaxSize == 3
ChunkSize == 2

(***************************************************************************)
(* Strings                                                                 *)
(***************************************************************************)
Rel(segs) == [abs |-> FALSE, segs |-> segs]
Abs(segs) == [abs |-> TRUE, segs |-> segs]

\* A route pattern: a path followed by an optional capture group.
Pattern(path, cap) == [abs |-> path.abs, segs |-> path.segs, cap |-> cap]

IsPrefix(s, t) == Len(s) <= Len(t) /\ SubSeq(t, 1, Len(s)) = s

\* PathMatches(pattern).match(request): the pattern, with "$" appended, is
\* matched from the start of the request path, which starts with "/".
Matches(pattern, path) ==
    /\ pattern.abs
    /\ IF pattern.cap = "/(.*)"
       THEN IsPrefix(pattern.segs, path.segs) /\ Len(path.segs) > Len(pattern.segs)
       ELSE pattern.segs = path.segs

None == "None"


(***************************************************************************)
(* MutableRouter.  A router value is [idx, rules]: idx is pattern_to_rule  *)
(* and rules the rule list; a rule is [id, pattern, target, params], id    *)
(* standing for the identity of the Rule object.                           *)
(***************************************************************************)
Router == [idx |-> pattern_to_rule, rules |-> rules]

has_rule(r, pattern) == pattern \in DOMAIN r.idx

\* list.remove(rule): removes the first element that is the rule; raises
\* ValueError, which remove_handler absorbs, when there is none.
ListRemove(rs, id) ==
    IF \E i \in 1..Len(rs) : rs[i].id = id
    THEN LET k == CHOOSE i \in 1..Len(rs) :
                    /\ rs[i].id = id
                    /\ \A j \in 1..(i - 1) : rs[j].id # id
         IN  [i \in 1..(Len(rs) - 1) |-> IF i < k THEN rs[i] ELSE rs[i + 1]]
    ELSE rs

\* remove_handler that takes the rule out of the list before it pops the index
router_remove_handler_list_first(r, pattern) ==
    IF pattern \in DOMAIN r.idx
    THEN IF \E i \in 1..Len(r.rules) : r.rules[i].id = r.idx[pattern]
         THEN [idx |-> [p \in DOMAIN r.idx \ {pattern} |-> r.idx[p]],
               rules |-> ListRemove(r.rules, r.idx[pattern])]
         ELSE r
    ELSE r

router_remove_handler(r, pattern) ==
    IF pattern \in DOMAIN r.idx
    THEN [idx |-> [p \in DOMAIN r.idx \ {pattern} |-> r.idx[p]],
          rules |-> ListRemove(r.rules, r.idx[pattern])]
    ELSE r

\* add_handler without the removal of the rule already under the pattern.
router_add_handler_keep_old(r, pattern, target, params, id) ==
    LET new_rule == [id |-> id, pattern |-> pattern, target |-> target,
                     params |-> params]
    IN  [idx |-> [p \in DOMAIN r.idx \cup {pattern} |->
                      IF p = pattern THEN id ELSE r.idx[p]],
         rules |-> Append(r.rules, new_rule)]

\* add_handler that puts the new rule in the place of the rule it replaces.
router_add_handler_in_place(r, pattern, target, params, id) ==
    LET new_rule == [id |-> id, pattern |-> pattern, target |-> target,
                     params |-> params]
    IN  [idx |-> [p \in DOMAIN r.idx \cup {pattern} |->
                      IF p = pattern THEN id ELSE r.idx[p]],
         rules |-> IF \E i \in 1..Len(r.rules) : r.rules[i].pattern = pattern
                   THEN [i \in 1..Len(r.rules) |->
                            IF r.rules[i].pattern = pattern THEN new_rule
                            ELSE r.rules[i]]
                   ELSE Append(r.rules, new_rule)]

router_add_handler(r, pattern, target, params, id) ==
    LET r1 == IF pattern \in DOMAIN r.idx
              THEN router_remove_handler(r, pattern)
              ELSE r
        new_rule == [id |-> id, pattern |-> pattern, target |-> target,
                     params |-> params]
    IN  [idx |-> [p \in DOMAIN r1.idx \cup {pattern} |->
                      IF p = pattern THEN id ELSE r1.idx[p]],
         rules |-> Append(r1.rules, new_rule)]

\* The rules of rs that match the path, in table order.
MatchingRules(rs, path) == SelectSeq(rs, LAMBDA rule : Matches(rule.pattern, path))

\* Routing of a request by the application: the first matching rule of the
\* mutable router wins, then the two fixed handlers; a path none of them
\* matches is given to the default handler class, AuthorizedErrorHandler,
\* whose prepare() raises HTTPError(404).
find_handler(rs, path) ==
    IF MatchingRules(rs, path) # <<>>
    THEN Head(MatchingRules(rs, path))
    ELSE IF path = Abs(<<"websocket">>)
    THEN [id |-> 0, target |-> "WebSocket"]
    ELSE IF path = Abs(<<"server", "redirect">>)
    THEN [id |-> 0, target |-> "RedirectHandler"]
    ELSE [id |-> 0, target |-> "AuthorizedErrorHandler"]


(***************************************************************************)
(* MoonrakerApp: the registry of API definitions and the fan-out to the    *)
(* transport adapters.                                                     *)
(***************************************************************************)
RESERVED_ENDPOINTS ==
    {Rel(<<"list_endpoints">>), Rel(<<"gcode", "subscribe_output">>),
     Rel(<<"register_remote_method">>)}

ALL_TRANSPORTS == {"http", "websocket", "mqtt"}

NoCallback == [fn |-> "None"]
LocalCallback == [fn |-> "callback"]

\* A join that keeps the last part only.
DotJoinLastOnly(parts) == parts[Len(parts)]

RECURSIVE DotJoin(_)
\* ".".join(parts), which is also "/".join(parts).replace("/", ".")
DotJoin(parts) ==
    IF parts = <<>> THEN ""
    ELSE IF Len(parts) = 1 THEN parts[1]
    ELSE parts[1] \o "." \o DotJoin(Tail(parts))

\* str.lower() of an HTTP method name
Lower(m) ==
    CASE m = "GET" -> "get"
      [] m = "POST" -> "post"
      [] m = "DELETE" -> "delete"
      [] OTHER -> m

Front(s) == SubSeq(s, 1, Len(s) - 1)
Last(s) == s[Len(s)]

\* _create_api_definition: [cache, def, error], error telling that it raised
\* (the definition is then neither built nor cached).
create_api_definition(cache, endpoint, request_methods, callback, transports) ==
    LET is_remote == callback = NoCallback
        uri == IF endpoint.abs THEN endpoint
               ELSE IF is_remote THEN Abs(<<"printer">> \o endpoint.segs)
               ELSE Abs(<<"server">> \o endpoint.segs)
        name_parts == uri.segs
        jrpc_methods ==
            IF is_remote THEN <<DotJoin(uri.segs)>>
            ELSE IF Len(request_methods) > 1
            THEN [i \in 1..Len(request_methods) |->
                     DotJoin(Front(name_parts)
                             \o <<Lower(request_methods[i]) \o "_" \o Last(name_parts)>>)]
            ELSE <<DotJoin(name_parts)>>
        methods == IF is_remote THEN <<"GET", "POST">> ELSE request_methods
        api_def == [endpoint |-> endpoint, uri |-> uri,
                    jrpc_methods |-> jrpc_methods,
                    request_methods |-> methods,
                    supported_transports |-> transports,
                    callback |-> callback,
                    need_object_parser |->
                        /\ ~endpoint.abs
                        /\ Len(endpoint.segs) > 1
                        /\ Head(endpoint.segs) = "objects"]
    IN  IF endpoint \in DOMAIN cache
        THEN [cache |-> cache, def |-> cache[endpoint], error |-> FALSE]
        ELSE IF ~is_remote /\ Len(methods) # Len(jrpc_methods)
        THEN [cache |-> cache, def |-> api_def, error |-> TRUE]
        ELSE [cache |-> [e \in DOMAIN cache \cup {endpoint} |->
                            IF e = endpoint THEN api_def ELSE cache[e]],
              def |-> api_def, error |-> FALSE]

\* The adapters a loop over api_transports.items() calls, in dict order:
\* those whose name is in `names`.
Called(transports, names) == SelectSeq(transports, LAMBDA name : name \in names)

\* How far a loop over the adapters `called` gets when the hook of the
\* fail-th of them raises (fail = 0: none raises): the exception leaves the
\* loop, and the function.
Reached(called, fail) ==
    IF fail \in 1..Len(called) THEN SubSeq(called, 1, fail) ELSE called
Raised(called, fail) == fail \in 1..Len(called)
Succeeded(called, fail) ==
    IF fail \in 1..Len(called) THEN SubSeq(called, 1, fail - 1) ELSE called

Range(s) == {s[i] : i \in DOMAIN s}

\* for name, transport in api_transports.items():
\*     transport.register_api_handler(api_def)
\* A loop that stops after the first adapter.
register_api_handlers_first_only(h, called, fail, api_def) ==
    [name \in DOMAIN h |->
        IF called # <<>> /\ name = Head(called) /\ fail # 1
        THEN h[name] \cup {api_def} ELSE h[name]]

register_api_handlers(h, called, fail, api_def) ==
    [name \in DOMAIN h |->
        IF name \in Range(Succeeded(called, fail))
        THEN h[name] \cup {api_def} ELSE h[name]]

\* for name, transport in api_transports.items():
\*     transport.remove_api_handler(api_def)
remove_api_handlers(h, called, fail, api_def) ==
    [name \in DOMAIN h |->
        IF name \in Range(Succeeded(called, fail))
        THEN h[name] \ {api_def} ELSE h[name]]


(***************************************************************************)
(* The calls made on the application.                                      *)
(***************************************************************************)
TransportNames == {"websocket", "mqtt"}

Endpoints == {Rel(<<"a">>), Abs(<<"printer", "a">>), Abs(<<"server", "a">>)}

\* The endpoints the remote side registers: any, and a reserved one.
RemoteEndpoints == Endpoints \cup {Rel(<<"list_endpoints">>)}

RequestMethods == {<<"GET">>, <<"POST", "DELETE">>, <<>>}

TransportLists == {ALL_TRANSPORTS, {"http", "websocket"}, {"mqtt"}}

WrapResults == {TRUE}

NoDef == [none |-> TRUE]

StaticParams(file_path) == [path |-> file_path]

\* register_static_file_handler(name, file_path, force=True), the form in
\* which __init__ calls it.
register_static_file_handler(r, name, file_path, id) ==
    router_add_handler(r, Pattern(Abs(<<"server", "files", name>>), "()"),
                       "FileRequestHandler", StaticParams(file_path), id)

AppInit ==
    /\ \E logfile \in {FALSE} :
         LET r0 == [idx |-> <<>>, rules |-> <<>>]
             r1 == IF logfile
                   THEN register_static_file_handler(r0, "moonraker.log", "log_file", 1)
                   ELSE r0
             r2 == register_static_file_handler(
                       r1, "klippy.log", "/tmp/klippy.log", Len(r1.rules) + 1)
         IN  /\ pattern_to_rule = r2.idx
             /\ rules = r2.rules
             /\ next_rule = Len(r2.rules) + 1
             /\ latest = r2.idx
    /\ replaced = {}
    /\ api_cache = <<>>
    /\ registered_base_handlers = {}
    /\ api_transports = <<"websocket">>
    /\ handlers = [name \in TransportNames |-> {}]
    /\ last = [op |-> "init"]
    /\ calls = 0
    /\ router_last = [op |-> "init"]

\* The router's variables after a call that left the router as r; `added`
\* holds the pattern of the call when the call was add_handler.
SetRouter(r, added) ==
    /\ pattern_to_rule' = r.idx
    /\ rules' = r.rules
    /\ next_rule' = IF added # {} THEN next_rule + 1 ELSE next_rule
    /\ latest' = [p \in DOMAIN latest \cup added |->
                     IF p \in added THEN next_rule ELSE latest[p]]
    /\ replaced' = replaced \cup
                     {rule \in Range(rules) :
                        rule.pattern \in added /\ rule.id = latest[rule.pattern]}

register_api_transport(name) ==
    /\ api_transports' = IF name \in Range(api_transports)
                         THEN api_transports
                         ELSE Append(api_transports, name)
    /\ handlers' = [handlers EXCEPT ![name] = {}]
    /\ last' = [op |-> "register_api_transport", name |-> name,
                returned |-> api_cache]
    /\ UNCHANGED <<routerVars, api_cache, registered_base_handlers>>

RemoteParams(api_def) ==
    [methods |-> api_def.request_methods, callback |-> api_def.endpoint,
     need_object_parser |-> api_def.need_object_parser,
     is_remote |-> TRUE, wrap_result |-> TRUE]

register_remote_handler(endpoint, fail) ==
    LET c == create_api_definition(api_cache, endpoint, <<>>, NoCallback,
                                   ALL_TRANSPORTS)
        api_def == c.def
        called == api_transports
    IN  IF endpoint \in RESERVED_ENDPOINTS
        THEN /\ last' = [op |-> "register_remote_handler", endpoint |-> endpoint,
                         outcome |-> "reserved"]
             /\ UNCHANGED <<routerVars, api_cache, registered_base_handlers,
                            api_transports, handlers>>
        ELSE IF api_def.uri \in registered_base_handlers
        THEN /\ api_cache' = c.cache
             /\ last' = [op |-> "register_remote_handler", endpoint |-> endpoint,
                         outcome |-> "duplicate"]
             /\ UNCHANGED <<routerVars, registered_base_handlers,
                            api_transports, handlers>>
        ELSE /\ next_rule <= MaxRules
             /\ api_cache' = c.cache
             /\ SetRouter(router_add_handler(Router, Pattern(api_def.uri, ""),
                              "DynamicRequestHandler", RemoteParams(api_def),
                              next_rule), {Pattern(api_def.uri, "")})
             /\ registered_base_handlers' = registered_base_handlers \cup {api_def.uri}
             /\ handlers' = register_api_handlers(handlers, called, fail, api_def)
             /\ last' = [op |-> "register_remote_handler", endpoint |-> endpoint,
                         outcome |-> IF Raised(called, fail) THEN "raised"
                                     ELSE "registered",
                         def |-> api_def, http |-> TRUE,
                         transports |-> ALL_TRANSPORTS,
                         invoked |-> Reached(called, fail)]
             /\ UNCHANGED api_transports

LocalParams(request_methods, callback, wrap_result) ==
    [methods |-> request_methods, callback |-> callback,
     wrap_result |-> wrap_result, is_remote |-> FALSE,
     need_object_parser |-> FALSE]

\* A registration that records the URI before the definition is created.
register_local_handler_records_first(uri, request_methods, transports, wrap_result, fail) ==
    LET c == create_api_definition(api_cache, uri, request_methods,
                                   LocalCallback, transports)
        api_def == c.def
        called == Called(api_transports, transports)
    IN  IF uri \in registered_base_handlers
        THEN /\ last' = [op |-> "register_local_handler", endpoint |-> uri,
                         outcome |-> "duplicate"]
             /\ UNCHANGED <<routerVars, api_cache, registered_base_handlers,
                            api_transports, handlers>>
        ELSE IF c.error
        THEN /\ last' = [op |-> "register_local_handler", endpoint |-> uri,
                         outcome |-> "config_error",
                         request_methods |-> request_methods]
             /\ registered_base_handlers' = registered_base_handlers \cup {uri}
             /\ UNCHANGED <<routerVars, api_cache, api_transports, handlers>>
        ELSE /\ "http" \in transports => next_rule <= MaxRules
             /\ api_cache' = c.cache
             /\ IF "http" \in transports
                THEN SetRouter(router_add_handler(Router, Pattern(uri, ""),
                                   "DynamicRequestHandler",
                                   LocalParams(request_methods, LocalCallback,
                                               wrap_result),
                                   next_rule), {Pattern(uri, "")})
                ELSE UNCHANGED routerVars
             /\ registered_base_handlers' = registered_base_handlers \cup {uri}
             /\ handlers' = register_api_handlers(handlers, called, fail, api_def)
             /\ last' = [op |-> "register_local_handler", endpoint |-> uri,
                         outcome |-> IF Raised(called, fail) THEN "raised"
                                     ELSE "registered",
                         def |-> api_def, http |-> "http" \in transports,
                         transports |-> transports,
                         request_methods |-> request_methods,
                         invoked |-> Reached(called, fail)]
             /\ UNCHANGED api_transports

register_local_handler(uri, request_methods, transports, wrap_result, fail) ==
    LET c == create_api_definition(api_cache, uri, request_methods,
                                   LocalCallback, transports)
        api_def == c.def
        called == Called(api_transports, transports)
    IN  IF uri \in registered_base_handlers
        THEN /\ last' = [op |-> "register_local_handler", endpoint |-> uri,
                         outcome |-> "duplicate"]
             /\ UNCHANGED <<routerVars, api_cache, registered_base_handlers,
                            api_transports, handlers>>
        ELSE IF c.error
        THEN /\ last' = [op |-> "register_local_handler", endpoint |-> uri,
                         outcome |-> "config_error",
                         request_methods |-> request_methods]
             /\ UNCHANGED <<routerVars, api_cache, registered_base_handlers,
                            api_transports, handlers>>
        ELSE /\ "http" \in transports => next_rule <= MaxRules
             /\ api_cache' = c.cache
             /\ IF "http" \in transports
                THEN SetRouter(router_add_handler(Router, Pattern(uri, ""),
                                   "DynamicRequestHandler",
                                   LocalParams(request_methods, LocalCallback,
                                               wrap_result),
                                   next_rule), {Pattern(uri, "")})
                ELSE UNCHANGED routerVars
             /\ registered_base_handlers' = registered_base_handlers \cup {uri}
             /\ handlers' = register_api_handlers(handlers, called, fail, api_def)
             /\ last' = [op |-> "register_local_handler", endpoint |-> uri,
                         outcome |-> IF Raised(called, fail) THEN "raised"
                                     ELSE "registered",
                         def |-> api_def, http |-> "http" \in transports,
                         transports |-> transports,
                         request_methods |-> request_methods,
                         invoked |-> Reached(called, fail)]
             /\ UNCHANGED api_transports

remove_handler(endpoint, fail) ==
    LET called == api_transports
    IN  IF endpoint \in DOMAIN api_cache
        THEN /\ api_cache' = [e \in DOMAIN api_cache \ {endpoint} |-> api_cache[e]]
             /\ SetRouter(router_remove_handler(
                              Router, Pattern(api_cache[endpoint].uri, "")), {})
             /\ handlers' = remove_api_handlers(handlers, called, fail,
                                                api_cache[endpoint])
             /\ last' = [op |-> "remove_handler", endpoint |-> endpoint,
                         outcome |-> IF Raised(called, fail) THEN "raised"
                                     ELSE "removed",
                         def |-> api_cache[endpoint],
                         invoked |-> Reached(called, fail)]
             /\ UNCHANGED <<registered_base_handlers, api_transports>>
        ELSE /\ last' = [op |-> "remove_handler", endpoint |-> endpoint,
                         outcome |-> "absent"]
             /\ UNCHANGED <<routerVars, api_cache, registered_base_handlers,
                            api_transports, handlers>>

\* A call made on the app: the model bounds their number.
Call ==
    /\ calls < MaxCalls
    /\ calls' = calls + 1
    /\ UNCHANGED <<uploadVars, dynVars, fileVars, httpVars, routerLog>>

RegisterApiTransport(name) ==
    Call /\ register_api_transport(name)

RegisterRemoteHandler(endpoint, fail) ==
    Call /\ register_remote_handler(endpoint, fail)

RegisterLocalHandler(uri, request_methods, transports, wrap_result, fail) ==
    Call /\ register_local_handler(uri, request_methods, transports, wrap_result, fail)

RemoveHandler(endpoint, fail) ==
    Call /\ remove_handler(endpoint, fail)

(***************************************************************************)
(* Errors.  An exception is [type, status_code, message]; the message of   *)
(* a tornado HTTPError is its log_message.  The request that raises ends   *)
(* in RequestHandler._handle_request_exception, which answers an HTTPError *)
(* with its status and anything else with 500, the reason being the        *)
(* standard phrase of the status, and calls write_error with exc_info.     *)
(***************************************************************************)
HTTPError(status_code, log_message) ==
    [type |-> "HTTPError", status_code |-> status_code, message |-> log_message]

\* utils.ServerError(message, status_code): an Exception carrying a status
\* code, which the handlers translate into an HTTPError.
ServerError(message, status_code) ==
    [type |-> "ServerError", status_code |-> status_code, message |-> message]

\* tornado.httputil.responses
Reason(status_code) ==
    CASE status_code = 400 -> "Bad Request"
      [] status_code = 403 -> "Forbidden"
      [] status_code = 404 -> "Not Found"
      [] status_code = 405 -> "Method Not Allowed"
      [] status_code = 422 -> "Unprocessable Entity"
      [] status_code = 500 -> "Internal Server Error"
      [] OTHER -> "Unknown"

\* traceback.format_exception: the text names the exception and its message.
FormatException(exc) == [type |-> exc.type, message |-> exc.message]

\* write_error(status_code, **kwargs) of the three handler bases; kwargs is
\* a function from the keyword names given.
write_error(status_code, kwargs) ==
    IF "exc_info" \in DOMAIN kwargs
    THEN [error |-> [code |-> status_code, message |-> Reason(status_code),
                     traceback |-> FormatException(kwargs["exc_info"])]]
    ELSE [error |-> [code |-> status_code, message |-> Reason(status_code)]]

\* The response to a request whose handler raised exc.
send_error(exc) ==
    LET status_code == IF exc.type = "HTTPError" THEN exc.status_code ELSE 500
    IN  [status |-> status_code,
         body |-> write_error(status_code, [k \in {"exc_info"} |-> exc])]

(***************************************************************************)
(* FileUploadHandler.  Text compared by the code (the checksum) is a       *)
(* sequence of characters; the file part is the sequence of its chunks.    *)
(***************************************************************************)
ScalarFields == {"root", "print", "path", "checksum"}

FieldValues(name) ==
    CASE name = "root" -> {<<"g", "c">>}
      [] name = "print" -> {<<"t">>}
      [] name = "path" -> {<<"s">>}
      [] name = "checksum" -> {<<"e", "a">>, <<"E", "A">>, <<"e", "1">>}

FileChunks == {"x", "y"}

TmpName == "tmp_upload"

\* hashlib.sha256(...).hexdigest(), modelled as an injective function of the
\* bytes hashed that yields lower-case hexadecimal text.
Sha256Hex(content) ==
    <<"e">> \o [i \in 1..Len(content) |-> IF content[i] = "x" THEN "a" ELSE "1"]

LowerChar(c) ==
    CASE c = "A" -> "a"
      [] c = "E" -> "e"
      [] OTHER -> c

\* str.lower()
StrLower(text) == [i \in 1..Len(text) |-> LowerChar(text[i])]

UploadInit ==
    /\ up_pc = "start"
    /\ targets = [name \in ScalarFields |-> <<>>]
    /\ file = [filename |-> None, multipart_filename |-> None]
    /\ sha256_target = <<>>
    /\ tmp_file = "none"
    /\ finalize_calls = <<>>
    /\ up_response = [none |-> TRUE]

\* prepare() of a POST: the temporary path is chosen and the targets are
\* registered with the parser; the file is created when the file part starts.
UploadPrepare ==
    /\ up_pc = "start"
    /\ up_pc' = "body"
    /\ file' = [filename |-> TmpName, multipart_filename |-> None]
    /\ targets' = [name \in ScalarFields |-> <<>>]
    /\ sha256_target' = <<>>
    /\ UNCHANGED <<tmp_file, finalize_calls, up_response>>

\* data_received(chunk), the chunk holding a scalar form field
UploadFieldReceived(name, value) ==
    /\ up_pc = "body"
    /\ targets[name] = <<>>
    /\ targets' = [targets EXCEPT ![name] = value]
    /\ UNCHANGED <<up_pc, file, sha256_target, tmp_file, finalize_calls, up_response>>

\* data_received(chunk), the chunk holding a piece of the file part: it is
\* written to the temporary file and fed to the digest.
UploadFileDataReceived(chunk) ==
    /\ up_pc = "body"
    /\ Len(sha256_target) < MaxFileChunks
    /\ file' = [file EXCEPT !.multipart_filename = "upload.gcode"]
    /\ tmp_file' = "temp"
    /\ sha256_target' = Append(sha256_target, chunk)
    /\ UNCHANGED <<up_pc, targets, finalize_calls, up_response>>

\* if chk_target.value:
\* A check that also verifies an absent checksum.
checksum_supplied_always(value) == TRUE

\* A check that takes every checksum field for absent.
checksum_supplied_never(value) == FALSE

checksum_supplied(value) == value # <<>>

\* os.remove(self._file.filename) inside try/except
os_remove(tmp) == IF tmp = "temp" THEN "deleted" ELSE tmp

\* form_args as post() builds it
form_args(tgts, f) ==
    [name \in {n \in ScalarFields \ {"checksum"} : tgts[n] # <<>>}
              \cup {"filename", "tmp_file_path"} |->
        CASE name = "filename" -> <<f.multipart_filename>>
          [] name = "tmp_file_path" -> <<f.filename>>
          [] OTHER -> tgts[name]]

\* file_manager.finalize_upload(form_args): it moves the temporary file to
\* its destination and returns a result, or fails; whether a failing call
\* has removed the temporary file is not fixed.  fin is the way this call
\* goes: [outcome, status_code, cleaned].
finalize_upload(args, tmp, fin) ==
    IF fin.outcome = "ok"
    THEN [raised |-> FALSE, tmp |-> "moved", result |-> [item |-> args["filename"]]]
    ELSE [raised |-> TRUE,
          tmp |-> IF fin.cleaned THEN os_remove(tmp) ELSE tmp,
          exc |-> IF fin.outcome = "ServerError"
                  THEN ServerError([text |-> "upload failed"], fin.status_code)
                  ELSE [type |-> "Exception", status_code |-> 0,
                        message |-> [text |-> "error"]]]

FinalizeWays(tmp) ==
    {[outcome |-> "ok", status_code |-> 0, cleaned |-> FALSE] : x \in {tmp} \cap {"temp"}}
    \cup [outcome : {"ServerError"}, status_code : {400, 403}, cleaned : BOOLEAN]
    \cup [outcome : {"Exception"}, status_code : {0}, cleaned : BOOLEAN]

\* post(): [tmp, finalize_calls, response]
post(tgts, f, sha, tmp, fin) ==
    LET chk_target == tgts["checksum"]
        calc_chksum == StrLower(Sha256Hex(sha))
        recd_cksum == StrLower(chk_target)
        args == form_args(tgts, f)
        done == finalize_upload(args, tmp, fin)
    IN  IF checksum_supplied(chk_target) /\ calc_chksum # recd_cksum
        THEN [tmp |-> os_remove(tmp), finalize_calls |-> <<>>,
              response |->
                  send_error(ServerError(
                      [text |-> "File checksum mismatch", expected |-> recd_cksum,
                       calculated |-> calc_chksum], 422))]
        ELSE [tmp |-> done.tmp,
              finalize_calls |-> <<[args |-> args, returned |-> done]>>,
              response |->
                  IF ~done.raised THEN [status |-> 200, body |-> done.result]
                  ELSE IF done.exc.type = "ServerError"
                  THEN send_error(HTTPError(done.exc.status_code, done.exc.message))
                  ELSE send_error(done.exc)]

UploadPost(fin) ==
    /\ up_pc = "body"
    /\ up_pc' = "done"
    /\ LET out == post(targets, file, sha256_target, tmp_file, fin)
       IN  /\ tmp_file' = out.tmp
           /\ finalize_calls' = finalize_calls \o out.finalize_calls
           /\ up_response' = out.response
    /\ UNCHANGED <<targets, file, sha256_target>>

(***************************************************************************)
(* DynamicRequestHandler: the parsing of the arguments.  A key is the      *)
(* sequence of its ":"-separated parts, so that "count:int" is             *)
(* <<"count", "int">>; a value is [t, v], t being its type and v its text. *)
(***************************************************************************)
EXCLUDED_ARGS == {<<"_">>, <<"token">>, <<"access_token">>, <<"connection_id">>}

Str(text) == [t |-> "str", v |-> text]
NoneValue == [t |-> "None", v |-> ""]

\* int(value)
ParseInt(value) ==
    IF value = "5" THEN [ok |-> TRUE, value |-> [t |-> "int", v |-> "5"]]
    ELSE [ok |-> FALSE]

\* float(value)
ParseFloat(value) ==
    IF value = "5" THEN [ok |-> TRUE, value |-> [t |-> "float", v |-> "5.0"]]
    ELSE [ok |-> FALSE]

\* value.lower() == "true"
ParseBool(value) ==
    [ok |-> TRUE,
     value |-> [t |-> "bool", v |-> IF value \in {"true", "True"} THEN "true" ELSE "false"]]

\* json.loads(value)
ParseJson(value) ==
    CASE value = "5" -> [ok |-> TRUE, value |-> [t |-> "int", v |-> "5"]]
      [] value = "true" -> [ok |-> TRUE, value |-> [t |-> "bool", v |-> "true"]]
      [] OTHER -> [ok |-> FALSE]

convert_type_keep_raw(value, hint) == Str(value)

\* _convert_type(value, hint)
convert_type(value, hint) ==
    LET converted == CASE hint = "int" -> ParseInt(value)
                       [] hint = "float" -> ParseFloat(value)
                       [] hint = "bool" -> ParseBool(value)
                       [] hint = "json" -> ParseJson(value)
                       [] OTHER -> [ok |-> FALSE]
    IN  IF hint \notin {"int", "float", "bool", "json"} THEN Str(value)
        ELSE IF converted.ok THEN converted.value
        ELSE Str(value)

\* d[key] = value
Put(d, key, value) ==
    [k \in DOMAIN d \cup {key} |-> IF k = key THEN value ELSE d[k]]

\* A merge in which the keys already present keep their values.
UpdateKeepOld(d, e) ==
    [k \in DOMAIN d \cup DOMAIN e |-> IF k \in DOMAIN d THEN d[k] ELSE e[k]]

\* d.update(e)
Update(d, e) ==
    [k \in DOMAIN d \cup DOMAIN e |-> IF k \in DOMAIN e THEN e[k] ELSE d[k]]

RECURSIVE default_parser(_)
\* _default_parser(), over request.arguments in the order of the dict
default_parser(arguments) ==
    IF arguments = <<>> THEN <<>>
    ELSE LET args == default_parser(Front(arguments))
             key == Last(arguments).key
             val == Last(arguments).value
         IN  IF key \in EXCLUDED_ARGS THEN args
             ELSE IF Len(key) = 1 THEN Put(args, key, Str(val))
             ELSE Put(args, Front(key), convert_type(val, Last(key)))

\* val.split(',')
SplitComma(val) == IF val = "a,b" THEN <<"a", "b">> ELSE <<val>>

RECURSIVE object_args(_)
object_args(arguments) ==
    IF arguments = <<>> THEN <<>>
    ELSE LET args == object_args(Front(arguments))
             key == Last(arguments).key
             val == Last(arguments).value
         IN  IF key \in EXCLUDED_ARGS THEN args
             ELSE IF val = "" THEN Put(args, key, NoneValue)
             ELSE Put(args, key, [t |-> "list", items |-> SplitComma(val)])

\* _object_parser()
object_parser(arguments) ==
    Put(<<>>, <<"objects">>, [t |-> "dict", entries |-> object_args(arguments)])

\* content_type.strip().startswith("application/json")
IsJsonContentType(content_type) ==
    content_type \in {"application/json", " application/json; charset=UTF-8"}

\* parse_args(): [raised, args]; json.loads(body) gives a dict, fails with a
\* JSONDecodeError, which is passed over, gives a value that is no dict,
\* which args.update() does not take (a TypeError that nothing catches), or
\* fails on bytes that are not UTF-8 with a UnicodeDecodeError, which is no
\* JSONDecodeError and which nothing catches either.
parse_args(req) ==
    LET query == IF req.need_object_parser THEN object_parser(req.arguments)
                 ELSE default_parser(req.arguments)
        merged == IF IsJsonContentType(req.content_type) /\ req.body.kind = "object"
                  THEN Update(query, req.body.entries)
                  ELSE query
        kwargs == req.path_kwargs
        args == [k \in DOMAIN merged \cup {n \in DOMAIN kwargs : kwargs[n] # NoneValue} |->
                    IF k \in DOMAIN kwargs /\ kwargs[k] # NoneValue
                    THEN kwargs[k] ELSE merged[k]]
    IN  IF IsJsonContentType(req.content_type) /\ req.body.kind \in {"array", "undecodable"}
        THEN [raised |-> TRUE, args |-> <<>>]
        ELSE [raised |-> FALSE, args |-> args]

(***************************************************************************)
(* The requests given to the parser.                                       *)
(***************************************************************************)
ArgKeys ==
    {<<"count">>, <<"count", "int">>, <<"count", "float">>, <<"count", "bool">>,
     <<"count", "json">>, <<"count", "xyz">>, <<"token">>, <<"token", "int">>}

RawValues == {"5", "abc", "true"}

\* the keys and values given to the parser of the objects
ObjectKeys == {<<"count">>, <<"token">>}

ObjectValues == {"", "5", "a,b"}

\* request.arguments: a dict, so no key twice, in the order of insertion
ArgLists(keys, values) ==
    {s \in UNION {[1..n -> [key : keys, value : values]] : n \in 0..MaxArgs} :
        \A i, j \in 1..Len(s) : s[i].key = s[j].key => i = j}

CountBody == [kind |-> "object", entries |-> Put(<<>>, <<"count">>, [t |-> "int", v |-> "7"])]

TokenBody ==
    [kind |-> "object",
     entries |-> Put(Put(<<>>, <<"token">>, Str("secret")), <<"extra">>, Str("x"))]

\* content type, body and path-captured parameters
Contents ==
    {[content_type |-> "", body |-> [kind |-> "malformed"], path_kwargs |-> <<>>],
     [content_type |-> "application/json", body |-> CountBody, path_kwargs |-> <<>>],
     [content_type |-> "application/json", body |-> TokenBody, path_kwargs |-> <<>>],
     [content_type |-> "application/json", body |-> [kind |-> "malformed"],
      path_kwargs |-> <<>>],
     [content_type |-> "application/json", body |-> [kind |-> "array"],
      path_kwargs |-> <<>>],
     [content_type |-> "application/json", body |-> [kind |-> "undecodable"],
      path_kwargs |-> <<>>],
     [content_type |-> "application/json", body |-> [kind |-> "malformed"],
      path_kwargs |-> Put(<<>>, <<"count">>, Str("captured"))],
     [content_type |-> " application/json; charset=UTF-8", body |-> CountBody,
      path_kwargs |-> <<>>],
     [content_type |-> "text/plain", body |-> CountBody, path_kwargs |-> <<>>],
     [content_type |-> "", body |-> [kind |-> "malformed"],
      path_kwargs |-> Put(<<>>, <<"count">>, Str("captured"))],
     [content_type |-> "", body |-> [kind |-> "malformed"],
      path_kwargs |-> Put(<<>>, <<"count">>, NoneValue)],
     [content_type |-> "", body |-> [kind |-> "malformed"],
      path_kwargs |-> Put(<<>>, <<"connection_id">>, Str("captured"))],
     [content_type |-> "application/json", body |-> CountBody,
      path_kwargs |-> Put(<<>>, <<"count">>, Str("captured"))]}

Requests ==
    {[arguments |-> a, content_type |-> c.content_type, body |-> c.body,
      path_kwargs |-> c.path_kwargs, need_object_parser |-> FALSE] :
        a \in ArgLists(ArgKeys, RawValues), c \in Contents}
    \cup
    {[arguments |-> a, content_type |-> c.content_type, body |-> c.body,
      path_kwargs |-> c.path_kwargs, need_object_parser |-> TRUE] :
        a \in ArgLists(ObjectKeys, ObjectValues), c \in Contents}

DynInit ==
    /\ dyn_pc = "idle"
    /\ request = [none |-> TRUE]
    /\ parsed = [none |-> TRUE]

\* A request arrives for a route of the DynamicRequestHandler.
ReceiveRequest ==
    /\ dyn_pc = "idle"
    /\ dyn_pc' = "received"
    /\ request' \in Requests
    /\ UNCHANGED parsed

\* args = self.parse_args()
ParseArgs ==
    /\ dyn_pc = "received"
    /\ dyn_pc' = "parsed"
    /\ parsed' = parse_args(request)
    /\ UNCHANGED request

(***************************************************************************)
(* FileRequestHandler.get: conditional and byte-range serving.  An         *)
(* optional integer is <<>> for None and <<n>> for n.  The content of a    *)
(* file of size S is the bytes 1..S; chunks are of ChunkSize bytes, the    *)
(* 64 KiB of the code scaled down.                                         *)
(***************************************************************************)
NoInt == <<>>

Some(n) == <<n>>

\* x or d
OrElse(x, d) == IF x = NoInt \/ x = Some(0) THEN d ELSE x[1]

Content(size) == [i \in 1..size |-> i]

\* One side of "<start_b>-<end_b>": empty, an integer, or anything else.
EmptyText == [kind |-> "empty", n |-> 0]

IntText(n) == [kind |-> "int", n |-> n]

BadText == [kind |-> "bad", n |-> 0]

NoHeader == [unit |-> "absent", start_b |-> EmptyText, end_b |-> EmptyText]

\* "<unit>=<start_b>-<end_b>"
RangeHeader(unit, start_b, end_b) == [unit |-> unit, start_b |-> start_b, end_b |-> end_b]

\* _int_or_none(val)
int_or_none(text) == IF text.kind = "empty" THEN NoInt ELSE Some(text.n)

\* tornado.httputil._parse_request_range(range_header): None, or (start, end)
\* with end exclusive; "-n" is the start -n, "-0" is the end 0.
parse_request_range(range_header) ==
    LET start == int_or_none(range_header.start_b)
        end == int_or_none(range_header.end_b)
    IN  IF range_header.unit # "bytes" THEN [ok |-> FALSE]
        ELSE IF range_header.start_b.kind = "bad" \/ range_header.end_b.kind = "bad"
        THEN [ok |-> FALSE]
        ELSE IF end # NoInt /\ start = NoInt
        THEN IF end[1] # 0 THEN [ok |-> TRUE, start |-> Some(0 - end[1]), end |-> NoInt]
             ELSE [ok |-> TRUE, start |-> start, end |-> end]
        ELSE IF end # NoInt THEN [ok |-> TRUE, start |-> start, end |-> Some(end[1] + 1)]
        ELSE [ok |-> TRUE, start |-> start, end |-> end]

\* tornado.httputil._get_content_range(start, end, size): "bytes a-b/size"
get_content_range(start, end, size) ==
    [unit |-> "bytes", first |-> OrElse(start, 0), last |-> OrElse(end, size) - 1,
     size |-> size]

\* "bytes */%s" % (size,)
UnsatisfiedRange(size) == [unit |-> "bytes", range |-> "*", size |-> size]

\* start += size; if start < 0: start = 0
resolve_start(start, size) ==
    IF start # NoInt /\ start[1] < 0
    THEN IF start[1] + size < 0 THEN Some(0) ELSE Some(start[1] + size)
    ELSE start

not_satisfiable_beyond_only(start, end, size) ==
    \/ start # NoInt /\ (start[1] > size \/ (end # NoInt /\ start[1] >= end[1]))
    \/ end = Some(0)

\* the condition of the 416
not_satisfiable(start, end, size) ==
    \/ start # NoInt /\ (start[1] >= size \/ (end # NoInt /\ start[1] >= end[1]))
    \/ end = Some(0)

clamp_end_never(end, size) == end

\* if end is not None and end > size: end = size
clamp_end(end, size) == IF end # NoInt /\ end[1] > size THEN Some(size) ELSE end

is_partial_when_ranged(start, end, size) == start # NoInt \/ end # NoInt

\* size != (end or size) - (start or 0)
is_partial(start, end, size) == size # OrElse(end, size) - OrElse(start, 0)

\* set_header(name, value)
set_header(headers, name, value) ==
    [h \in DOMAIN headers \cup {name} |-> IF h = name THEN value ELSE headers[h]]

\* set_headers() with set_extra_headers()
BaseHeaders == set_header(<<>>, "Content-Disposition", "attachment")

SpanOfWholeLength(start, end, size) ==
    [start |-> start, end |-> IF end # NoInt THEN end ELSE Some(size),
     content_length |-> size]

\* The span and the Content-Length that end get() for start and end.
Span(start, end, size) ==
    IF start # NoInt /\ end # NoInt
    THEN [start |-> start, end |-> end, content_length |-> end[1] - start[1]]
    ELSE IF end # NoInt
    THEN [start |-> start, end |-> end, content_length |-> end[1]]
    ELSE IF start # NoInt
    THEN [start |-> start, end |-> Some(size), content_length |-> size - start[1]]
    ELSE [start |-> start, end |-> Some(size), content_length |-> size]

\* get(path, include_body) up to the first chunk: [status, headers, streams,
\* start, end]; raised tells that validate_absolute_path refused the path.
get(req) ==
    LET size == req.size
        parsed_range == IF req.range = NoHeader THEN [ok |-> FALSE]
                        ELSE parse_request_range(req.range)
        start == IF parsed_range.ok THEN resolve_start(parsed_range.start, size) ELSE NoInt
        end0 == IF parsed_range.ok THEN parsed_range.end ELSE NoInt
        end == clamp_end(end0, size)
        span == Span(start, end, size)
        status == IF parsed_range.ok /\ is_partial(start, end, size) THEN 206 ELSE 200
        ranged == IF status = 206
                  THEN set_header(BaseHeaders, "Content-Range",
                                  get_content_range(start, end, size))
                  ELSE BaseHeaders
    IN  IF req.path = "missing"
        THEN [raised |-> TRUE, exc |-> HTTPError(404, [text |-> "not found"])]
        ELSE IF req.path = "outside"
        THEN [raised |-> TRUE, exc |-> HTTPError(403, [text |-> "not in root"])]
        ELSE IF req.not_modified
        THEN [raised |-> FALSE, status |-> 304, headers |-> BaseHeaders,
              streams |-> FALSE, start |-> NoInt, end |-> NoInt]
        ELSE IF parsed_range.ok /\ not_satisfiable(start, end0, size)
        THEN [raised |-> FALSE, status |-> 416,
              headers |-> set_header(set_header(BaseHeaders, "Content-Type", "text/plain"),
                                     "Content-Range", UnsatisfiedRange(size)),
              streams |-> FALSE, start |-> NoInt, end |-> NoInt]
        ELSE [raised |-> FALSE, status |-> status,
              headers |-> set_header(ranged, "Content-Length", span.content_length),
              streams |-> req.method = "GET", start |-> span.start, end |-> span.end]

(***************************************************************************)
(* The file requests.                                                      *)
(***************************************************************************)
Sizes == 0..MaxSize

HeaderInts == 0..(MaxSize + 1)

RangeHeaders ==
    {NoHeader, RangeHeader("bytes", EmptyText, EmptyText),
     RangeHeader("bytes", BadText, EmptyText), RangeHeader("items", IntText(0), EmptyText)}
    \cup {RangeHeader("bytes", IntText(a), EmptyText) : a \in HeaderInts}
    \cup {RangeHeader("bytes", EmptyText, IntText(n)) : n \in HeaderInts}
    \cup {RangeHeader("bytes", IntText(a), IntText(b)) : a, b \in HeaderInts}

FileRequests ==
    [method : {"GET", "HEAD"}, path : {"file"}, size : Sizes, range : RangeHeaders,
     not_modified : BOOLEAN]
    \cup
    [method : {"GET"}, path : {"missing", "outside"}, size : {0}, range : {NoHeader},
     not_modified : {FALSE}]

NoStream == [pos |-> 0, remaining |-> 0, ended |-> "none"]

FileInit ==
    /\ file_pc = "idle"
    /\ file_request = [none |-> TRUE]
    /\ file_response = [none |-> TRUE]
    /\ file_stream = NoStream

\* A GET or HEAD request arrives for a file route.
FileRequest ==
    /\ file_pc = "idle"
    /\ file_pc' = "received"
    /\ file_request' \in FileRequests
    /\ UNCHANGED <<file_response, file_stream>>

\* get() runs up to the first read of get_content_nonblock.
FileGet ==
    /\ file_pc = "received"
    /\ LET out == get(file_request)
       IN  IF out.raised
           THEN /\ file_response' = send_error(out.exc)
                /\ file_pc' = "done"
                /\ file_stream' = NoStream
           ELSE /\ file_response' = [status |-> out.status, headers |-> out.headers,
                                     body |-> <<>>]
                /\ file_pc' = IF out.streams THEN "streaming" ELSE "done"
                /\ file_stream' = IF out.streams
                                  THEN [pos |-> OrElse(out.start, 0),
                                        remaining |-> out.end[1] - OrElse(out.start, 0),
                                        ended |-> "none"]
                                  ELSE NoStream
    /\ UNCHANGED file_request

\* A reader that never counts down what is left of the span.
FileReadChunkUncounted(closed) ==
    /\ file_pc = "streaming"
    /\ LET chunk_size == IF file_stream.remaining < ChunkSize
                         THEN file_stream.remaining ELSE ChunkSize
           content == Content(file_request.size)
           chunk == SubSeq(content, file_stream.pos + 1,
                           IF file_stream.pos + chunk_size > Len(content)
                           THEN Len(content) ELSE file_stream.pos + chunk_size)
       IN  IF chunk # <<>>
           THEN IF closed
                THEN /\ file_pc' = "done"
                     /\ file_stream' = [file_stream EXCEPT !.ended = "closed"]
                     /\ UNCHANGED file_response
                ELSE /\ file_pc' = "streaming"
                     /\ file_stream' = [file_stream EXCEPT !.pos = @ + Len(chunk)]
                     /\ file_response' = [file_response EXCEPT !.body = Append(@, chunk)]
           ELSE /\ file_pc' = "done"
                /\ file_stream' = [file_stream EXCEPT
                                       !.ended = IF file_stream.remaining = 0
                                                 THEN "complete" ELSE "AssertionError"]
                /\ UNCHANGED file_response
    /\ UNCHANGED file_request

\* One turn of the loop of get_content_nonblock and of the loop of get()
\* that writes its chunk; closed tells that the peer has disconnected, so
\* that the write raises StreamClosedError.
FileReadChunk(closed) ==
    /\ file_pc = "streaming"
    /\ LET chunk_size == IF file_stream.remaining < ChunkSize
                         THEN file_stream.remaining ELSE ChunkSize
           content == Content(file_request.size)
           chunk == SubSeq(content, file_stream.pos + 1,
                           IF file_stream.pos + chunk_size > Len(content)
                           THEN Len(content) ELSE file_stream.pos + chunk_size)
       IN  IF chunk # <<>>
           THEN IF closed
                THEN /\ file_pc' = "done"
                     /\ file_stream' = [file_stream EXCEPT !.ended = "closed"]
                     /\ UNCHANGED file_response
                ELSE /\ file_pc' = "streaming"
                     /\ file_stream' = [file_stream EXCEPT
                                            !.pos = @ + Len(chunk),
                                            !.remaining = @ - Len(chunk)]
                     /\ file_response' = [file_response EXCEPT !.body = Append(@, chunk)]
           ELSE /\ file_pc' = "done"
                /\ file_stream' = [file_stream EXCEPT
                                       !.ended = IF file_stream.remaining = 0
                                                 THEN "complete" ELSE "AssertionError"]
                /\ UNCHANGED file_response
    /\ UNCHANGED file_request

(***************************************************************************)
(* DynamicRequestHandler: the dispatch of a request, _process_http_request *)
(* up to the await of the callback, and the return of the callback.        *)
(***************************************************************************)
NoMessage == [text |-> ""]

method_allowed_any(method, methods) == TRUE

\* self.request.method in self.methods
method_allowed(method, methods) == method \in Range(methods)

\* The methods DynamicRequestHandler implements (get, post, delete); tornado
\* answers the others with HTTPError(405).
ImplementedMethods == {"GET", "POST", "DELETE"}

\* self.get_argument(name, None): the value of the query argument, or <<>>
get_argument(arguments, name) ==
    LET found == SelectSeq(arguments, LAMBDA a : a.key = name)
    IN  IF found = <<>> THEN <<>> ELSE <<found[1].value>>

\* get_associated_websocket(): the connection of the id the request names
get_associated_websocket(req) ==
    LET conn_id == get_argument(req.arguments, <<"connection_id">>)
    IN  IF conn_id = <<>> THEN "None"
        ELSE IF ~ParseInt(conn_id[1]).ok THEN "None"
        ELSE IF req.ws_open THEN "websocket" ELSE "None"

\* WebRequest(endpoint, args, action, conn=conn) as _do_local_request and
\* _do_remote_request build it
WebRequest(req, args, conn) ==
    IF req.route.is_remote
    THEN [call |-> "make_request", endpoint |-> req.route.callback, action |-> "",
          args |-> args, conn |-> conn]
    ELSE [call |-> "callback", endpoint |-> req.path, action |-> req.method,
          args |-> args, conn |-> conn]

\* _process_http_request() up to the await: [raised, exc, trace]
process_http_request(req) ==
    LET conn == get_associated_websocket(req)
        p == parse_args(req)
        entered == <<[call |-> "get_associated_websocket"], [call |-> "parse_args"]>>
    IN  IF req.method \notin ImplementedMethods
        THEN [raised |-> TRUE, exc |-> HTTPError(405, NoMessage), trace |-> <<>>]
        ELSE IF ~method_allowed(req.method, req.route.methods)
        THEN [raised |-> TRUE, exc |-> HTTPError(405, NoMessage), trace |-> <<>>]
        ELSE IF p.raised
        THEN [raised |-> TRUE,
              exc |-> [type |-> "TypeError", status_code |-> 0,
                       message |-> [text |-> "not a mapping"]],
              trace |-> entered]
        ELSE [raised |-> FALSE, trace |-> Append(entered, WebRequest(req, p.args, conn))]

\* What the awaited callback does: it returns, fails with a ServerError
\* (a status code and a message), or fails with another exception.
CallbackOutcomes ==
    {[kind |-> "result", result |-> [value |-> "ok"]]}
    \cup {[kind |-> "raised", exc |-> ServerError([text |-> m], c)] :
             c \in {400, 403, 404}, m \in {"declared fault"}}
    \cup {[kind |-> "raised",
           exc |-> [type |-> "Exception", status_code |-> 0,
                    message |-> [text |-> "unexpected"]]]}

\* The rest of _process_http_request(), from the end of the await.
finish_http_request(req, outcome) ==
    IF outcome.kind = "raised"
    THEN IF outcome.exc.type = "ServerError"
         THEN send_error(HTTPError(outcome.exc.status_code, outcome.exc.message))
         ELSE send_error(outcome.exc)
    ELSE [status |-> 200,
          body |-> IF req.route.wrap_result THEN [result |-> outcome.result]
                   ELSE outcome.result]

HttpArguments ==
    {<<>>,
     <<[key |-> <<"count", "int">>, value |-> "5"]>>,
     <<[key |-> <<"connection_id">>, value |-> "5"]>>,
     <<[key |-> <<"connection_id">>, value |-> "abc"],
       [key |-> <<"count">>, value |-> "abc"]>>}

HttpBodies ==
    {[content_type |-> "", body |-> [kind |-> "malformed"]],
     [content_type |-> "application/json", body |-> CountBody],
     [content_type |-> "application/json", body |-> [kind |-> "array"]]}

\* The parameters a route gives to the handler (RemoteParams, LocalParams)
Routes ==
    {[methods |-> <<"GET", "POST">>, callback |-> Rel(<<"a">>), is_remote |-> TRUE,
      wrap_result |-> TRUE, need_object_parser |-> FALSE]}
    \cup
    [methods : {<<"GET">>, <<"POST", "DELETE">>}, callback : {LocalCallback},
     is_remote : {FALSE}, wrap_result : BOOLEAN, need_object_parser : {FALSE}]

HttpRequests ==
    {[method |-> m, path |-> Abs(<<"printer", "a">>), route |-> r, arguments |-> a,
      content_type |-> b.content_type, body |-> b.body, path_kwargs |-> <<>>,
      need_object_parser |-> r.need_object_parser, ws_open |-> w,
      serve_traceback |-> d] :
        m \in {"GET", "POST", "DELETE", "PUT"}, r \in Routes, a \in HttpArguments,
        b \in HttpBodies, w \in BOOLEAN, d \in BOOLEAN}

HttpInit ==
    /\ http_pc = "idle"
    /\ http_request = [none |-> TRUE]
    /\ http_trace = <<>>
    /\ http_response = [none |-> TRUE]

\* A request arrives for a route of the DynamicRequestHandler.
HttpReceive ==
    /\ http_pc = "idle"
    /\ http_pc' = "received"
    /\ http_request' \in HttpRequests
    /\ UNCHANGED <<http_trace, http_response>>

\* get(), post() or delete(): _process_http_request() runs to its await.
ProcessHttpRequest ==
    /\ http_pc = "received"
    /\ LET out == process_http_request(http_request)
       IN  /\ http_trace' = out.trace
           /\ IF out.raised
              THEN /\ http_pc' = "done"
                   /\ http_response' = send_error(out.exc)
              ELSE /\ http_pc' = "awaiting"
                   /\ UNCHANGED http_response
    /\ UNCHANGED http_request

\* The callback ends and _process_http_request() runs to its end.
HttpCallbackEnds(outcome) ==
    /\ http_pc = "awaiting"
    /\ http_pc' = "done"
    /\ http_response' = finish_http_request(http_request, outcome)
    /\ http_trace' = Append(http_trace, [call |-> "ended", outcome |-> outcome])
    /\ UNCHANGED http_request

(***************************************************************************)
(* The calls made on the route table itself.                               *)
(***************************************************************************)
RouterPatterns ==
    {Pattern(Abs(<<"server", "files", "klippy.log">>), "()"),
     Pattern(Abs(<<"server", "files">>), "/(.*)"),
     Pattern(Abs(<<"server", "files", "upload">>), "")}

RouterTargets == {"FileRequestHandler", "FileUploadHandler"}

RouterPaths ==
    {Abs(<<"server", "files", "klippy.log">>), Abs(<<"server", "files", "upload">>),
     Abs(<<"server", "files", "gcodes">>)}

\* self.rules.remove(rule) raises: the rule of the index is not in the list
RemoveThrows(r, pattern) ==
    /\ pattern \in DOMAIN r.idx
    /\ \A i \in 1..Len(r.rules) : r.rules[i].id # r.idx[pattern]

RouterAddHandler(pattern, target) ==
    /\ next_rule <= MaxRules
    /\ SetRouter(router_add_handler(Router, pattern, target,
                                    [target |-> target], next_rule), {pattern})
    /\ router_last' = [op |-> "add_handler", pattern |-> pattern, target |-> target,
                       id |-> next_rule, present |-> has_rule(Router, pattern),
                       threw |-> RemoveThrows(Router, pattern)]
    /\ UNCHANGED <<appVars, uploadVars, dynVars, fileVars, httpVars>>

RouterRemoveHandler(pattern) ==
    /\ SetRouter(router_remove_handler(Router, pattern), {})
    /\ router_last' = [op |-> "remove_handler", pattern |-> pattern,
                       present |-> has_rule(Router, pattern),
                       threw |-> RemoveThrows(Router, pattern)]
    /\ UNCHANGED <<appVars, uploadVars, dynVars, fileVars, httpVars>>

\* The rule list is altered behind the index: `rules` is the public list of
\* tornado's RuleRouter, and the case the try/except of remove_handler is
\* written for.  The i-th rule leaves the list, the index keeps its pattern.
RulesListAltered(i) ==
    /\ i \in 1..Len(rules)
    /\ rules' = [k \in 1..(Len(rules) - 1) |-> IF k < i THEN rules[k] ELSE rules[k + 1]]
    /\ router_last' = [op |-> "altered", pattern |-> rules[i].pattern]
    /\ UNCHANGED <<pattern_to_rule, next_rule, latest, replaced>>
    /\ UNCHANGED <<appVars, uploadVars, dynVars, fileVars, httpVars>>

vars == <<routerVars, appVars, uploadVars, dynVars, fileVars, httpVars, routerLog>>

Init == AppInit /\ UploadInit /\ DynInit /\ FileInit /\ HttpInit

NextRouter ==
    \/ \E pattern \in RouterPatterns, target \in RouterTargets :
         RouterAddHandler(pattern, target)
    \/ \E pattern \in RouterPatterns : RouterRemoveHandler(pattern)

SpecRouter == Init /\ [][NextRouter]_vars

NextRouterFault ==
    \/ \E pattern \in RouterPatterns, target \in RouterTargets :
         RouterAddHandler(pattern, target)
    \/ \E pattern \in RouterPatterns : RouterRemoveHandler(pattern)
    \/ \E i \in 1..MaxRules : RulesListAltered(i)

SpecRouterFault == Init /\ [][NextRouterFault]_vars

NextApp ==
    \/ \E name \in {"mqtt"} : RegisterApiTransport(name)
    \/ \E endpoint \in RemoteEndpoints, fail \in 0..Len(api_transports) :
         RegisterRemoteHandler(endpoint, fail)
    \/ \E uri \in Endpoints, request_methods \in RequestMethods,
          transports \in TransportLists, wrap_result \in WrapResults,
          fail \in 0..Len(api_transports) :
         RegisterLocalHandler(uri, request_methods, transports, wrap_result, fail)
    \/ \E endpoint \in Endpoints, fail \in 0..Len(api_transports) :
         RemoveHandler(endpoint, fail)

SpecApp == Init /\ [][NextApp]_vars

NextUpload ==
    \/ UploadPrepare /\ UNCHANGED <<routerVars, appVars, dynVars, fileVars, httpVars, routerLog>>
    \/ \E name \in ScalarFields : \E value \in FieldValues(name) :
         /\ UploadFieldReceived(name, value)
         /\ UNCHANGED <<routerVars, appVars, dynVars, fileVars, httpVars, routerLog>>
    \/ \E chunk \in FileChunks :
         UploadFileDataReceived(chunk) /\ UNCHANGED <<routerVars, appVars, dynVars, fileVars, httpVars, routerLog>>
    \/ \E fin \in FinalizeWays(tmp_file) :
         UploadPost(fin) /\ UNCHANGED <<routerVars, appVars, dynVars, fileVars, httpVars, routerLog>>

SpecUpload == Init /\ [][NextUpload]_vars

NextDyn ==
    \/ ReceiveRequest /\ UNCHANGED <<routerVars, appVars, uploadVars, fileVars, httpVars, routerLog>>
    \/ ParseArgs /\ UNCHANGED <<routerVars, appVars, uploadVars, fileVars, httpVars, routerLog>>

SpecDyn == Init /\ [][NextDyn]_vars

NextFile ==
    \/ FileRequest /\ UNCHANGED <<routerVars, appVars, uploadVars, dynVars, httpVars, routerLog>>
    \/ FileGet /\ UNCHANGED <<routerVars, appVars, uploadVars, dynVars, httpVars, routerLog>>
    \/ \E closed \in BOOLEAN :
         FileReadChunk(closed) /\ UNCHANGED <<routerVars, appVars, uploadVars, dynVars, httpVars, routerLog>>

SpecFile == Init /\ [][NextFile]_vars

\* The transfer under the scheduling of the event loop: the coroutine of
\* get() is resumed whenever the read it awaits in run_in_thread has returned
\* and whenever flush() has resolved or has raised StreamClosedError, so a
\* turn of the loop that can be taken is taken.
FileTurn ==
    \E closed \in BOOLEAN :
        FileReadChunk(closed) /\ UNCHANGED <<routerVars, appVars, uploadVars, dynVars, httpVars, routerLog>>

SpecFileFair == Init /\ [][NextFile]_vars /\ WF_vars(FileTurn)

NextHttp ==
    \/ HttpReceive /\ UNCHANGED <<routerVars, appVars, uploadVars, dynVars, fileVars, routerLog>>
    \/ ProcessHttpRequest /\ UNCHANGED <<routerVars, appVars, uploadVars, dynVars, fileVars, routerLog>>
    \/ \E outcome \in CallbackOutcomes :
         HttpCallbackEnds(outcome)
         /\ UNCHANGED <<routerVars, appVars, uploadVars, dynVars, fileVars, routerLog>>

SpecHttp == Init /\ [][NextHttp]_vars


(***************************************************************************)
(* Claims about the registry and the route table.                          *)
(***************************************************************************)
Removed == last.op = "remove_handler" /\ last.outcome # "absent"

Registered ==
    /\ last.op \in {"register_remote_handler", "register_local_handler"}
    /\ last.outcome = "registered"

\* The pattern under which the last registration installed its rule:
\* api_def.uri for a remote endpoint, the uri argument for a local one.
InstalledPattern ==
    IF last.op = "register_remote_handler"
    THEN Pattern(last.def.uri, "") ELSE Pattern(last.endpoint, "")

\* C1: after remove_handler(endpoint) for a registered endpoint the registry
\* has no entry for it, no rule of the route table matches its URI, the
\* removal hook of every transport adapter was invoked for the definition,
\* and a request to the URI is routed to the default not-found handler.
C1_RemoveHandlerDeregisters ==
    Removed =>
        /\ last.endpoint \notin DOMAIN api_cache
        /\ \A i \in 1..Len(rules) : ~Matches(rules[i].pattern, last.def.uri)
        /\ Range(last.invoked) = Range(api_transports)
        /\ find_handler(rules, last.def.uri).target = "AuthorizedErrorHandler"

\* C2: after any sequence of add_handler and remove_handler calls the rule
\* list holds at most one rule per pattern, that rule is the one of the most
\* recent add_handler of the pattern, and no lookup resolves to a rule that
\* a later add_handler of its pattern replaced.
C2_LastRegistrationWins ==
    /\ \A i, j \in 1..Len(rules) : rules[i].pattern = rules[j].pattern => i = j
    /\ \A i \in 1..Len(rules) : rules[i].id = latest[rules[i].pattern]
    /\ \A path \in RouterPaths : find_handler(rules, path) \notin replaced

\* C2, witness: a pattern was added again, and a lookup resolves to the rule
\* of the second add_handler.
C2_Witness ==
    \E old \in replaced, path \in RouterPaths :
        /\ Matches(old.pattern, path)
        /\ find_handler(rules, path) \in Range(rules)
        /\ find_handler(rules, path).pattern = old.pattern
        /\ find_handler(rules, path).target # old.target

\* C3, as stated: a successful registration leaves the route rule installed
\* and the definition registered with every active transport adapter.
C3_EveryAdapterNotified ==
    Registered =>
        /\ last.http => has_rule(Router, InstalledPattern)
        /\ \A name \in Range(api_transports) : last.def \in handlers[name]

\* C3, amended: a successful registration leaves, in the one step it takes,
\* the route rule installed when "http" is among its transports and the
\* definition registered with every active transport adapter whose name is
\* among its transports, the hook of no other adapter having been invoked.
C3_ListedAdaptersNotified ==
    Registered =>
        /\ last.http =>
             /\ has_rule(Router, InstalledPattern)
             /\ \E i \in 1..Len(rules) :
                  /\ rules[i].id = pattern_to_rule[InstalledPattern]
                  /\ rules[i].target = "DynamicRequestHandler"
        /\ \A name \in Range(api_transports) :
             IF name \in last.transports
             THEN last.def \in handlers[name] /\ name \in Range(last.invoked)
             ELSE name \notin Range(last.invoked)

\* C3, witness: a local registration with two active adapters, one of them
\* not among its transports.
C3_Witness ==
    /\ Registered
    /\ last.op = "register_local_handler"
    /\ last.http
    /\ Len(api_transports) = 2
    /\ \E name \in Range(api_transports) : name \in last.transports
    /\ \E name \in Range(api_transports) : name \notin last.transports


(***************************************************************************)
(* Claims about the upload handler.                                        *)
(***************************************************************************)
CaseInsensitiveEqual(a, b) ==
    /\ Len(a) = Len(b)
    /\ \A i \in 1..Len(a) : LowerChar(a[i]) = LowerChar(b[i])

\* The request ended, and its checksum field differed from the digest.
UploadMismatch ==
    /\ up_pc = "done"
    /\ targets["checksum"] # <<>>
    /\ ~CaseInsensitiveEqual(targets["checksum"], Sha256Hex(sha256_target))

\* C4: on every exit path of an upload request (checksum mismatch,
\* successful finalize, exception raised by finalize_upload) the temporary
\* file has been moved or deleted; it is never left at its temporary path.
C4_TempFileNeverLeft ==
    up_pc = "done" => tmp_file # "temp"

\* C5: an upload whose checksum field differs, compared case-insensitively,
\* from the SHA-256 of the file part is answered with status 422, the
\* temporary file no longer exists, and the error payload contains the
\* expected and the computed digest.
C5_MismatchAnswered422 ==
    UploadMismatch =>
        /\ up_response.status = 422
        /\ tmp_file # "temp"
        /\ \E part \in {up_response.body.error.traceback.message} :
             /\ part.expected = StrLower(targets["checksum"])
             /\ part.calculated = Sha256Hex(sha256_target)

C7_ReservedKeysExcluded ==
    (dyn_pc = "parsed" /\ ~parsed.raised) =>
        \A key \in DOMAIN parsed.args : key \notin EXCLUDED_ARGS

(***************************************************************************)
(* Claims about the range serving.  They are about a request for an        *)
(* existing file that is not answered 304 from its conditional headers.    *)
(***************************************************************************)
RECURSIVE Flatten(_)
Flatten(chunks) ==
    IF chunks = <<>> THEN <<>> ELSE Flatten(Front(chunks)) \o Last(chunks)

RangeHandled ==
    /\ file_pc \in {"streaming", "done"}
    /\ file_request.path = "file"
    /\ ~file_request.not_modified

\* A GET with "Range: bytes=0-" that has run to its end, the peer connected.
OpenRangeServed ==
    /\ RangeHandled
    /\ file_pc = "done"
    /\ file_request.method = "GET"
    /\ file_request.range = RangeHeader("bytes", IntText(0), EmptyText)
    /\ file_stream.ended # "closed"

FullContent200 ==
    /\ file_response.status = 200
    /\ Flatten(file_response.body) = Content(file_request.size)

\* C8 as stated: for every file size S, a GET with "Range: bytes=0-" is
\* answered 200 with the full content, never 206 and never 416.
C8_OpenRangeFullContent == OpenRangeServed => FullContent200

\* C8 amended: for every file size S >= 1, a GET with "Range: bytes=0-" is
\* answered 200 with the full content; for the empty file (S = 0) the start
\* 0 is at the content length and the answer is 416.
C8_OpenRangeFullContentNonEmpty ==
    OpenRangeServed =>
        IF file_request.size >= 1 THEN FullContent200
        ELSE file_response.status = 416

C8_Witness ==
    /\ OpenRangeServed
    /\ file_request.size > ChunkSize
    /\ Len(file_response.body) >= 2
    /\ FullContent200

\* The ranges that C9 calls unsatisfiable for the size S, read off the header:
\* "a-" or "a-b" with a >= S, "a-b" with b < a, "-0", and "-n" whose start
\* S - n, clamped to 0, is at or beyond S.
ClaimedUnsatisfiable(h, S) ==
    /\ h.unit = "bytes"
    /\ h.start_b.kind # "bad" /\ h.end_b.kind # "bad"
    /\ \/ h.start_b.kind = "int" /\ h.start_b.n >= S
       \/ h.start_b.kind = "int" /\ h.end_b.kind = "int" /\ h.end_b.n < h.start_b.n
       \/ h.start_b.kind = "empty" /\ h.end_b.kind = "int" /\ h.end_b.n = 0
       \/ /\ h.start_b.kind = "empty" /\ h.end_b.kind = "int" /\ h.end_b.n > 0
          /\ (IF S - h.end_b.n < 0 THEN 0 ELSE S - h.end_b.n) >= S

\* C9: a range whose resolved start is at or beyond the content length S,
\* or whose end is before its start, or that is the zero-length suffix, is
\* answered 416 with "Content-Range: bytes */S" and no body.
C9_Unsatisfiable416 ==
    (RangeHandled /\ ClaimedUnsatisfiable(file_request.range, file_request.size)) =>
        /\ file_response.status = 416
        /\ "Content-Range" \in DOMAIN file_response.headers
        /\ file_response.headers["Content-Range"] = UnsatisfiedRange(file_request.size)
        /\ file_response.body = <<>>
        /\ file_pc = "done"
        /\ file_stream = NoStream

C9_Witness ==
    /\ RangeHandled
    /\ file_request.method = "GET"
    /\ file_request.size = 2
    /\ file_request.range = RangeHeader("bytes", IntText(2), IntText(3))
    /\ file_response.status = 416
    /\ file_response.headers["Content-Range"] = UnsatisfiedRange(2)

\* The satisfiable ranges that cover the whole resource of size S once a
\* negative start is clamped to 0 and an end beyond S to S.
ClaimedWhole(h, S) ==
    /\ h.unit = "bytes"
    /\ h.start_b.kind # "bad" /\ h.end_b.kind # "bad"
    /\ ~ClaimedUnsatisfiable(h, S)
    /\ LET first == IF h.start_b.kind = "int" THEN h.start_b.n
                    ELSE IF h.end_b.kind = "int" /\ S - h.end_b.n > 0
                    THEN S - h.end_b.n ELSE 0
           beyond == IF h.start_b.kind = "int" /\ h.end_b.kind = "int" /\ h.end_b.n + 1 < S
                     THEN h.end_b.n + 1 ELSE S
       IN  first = 0 /\ beyond = S

\* C10: a satisfiable range that covers the entire resource after the
\* clamping of its start and end is answered 200 without a Content-Range
\* header, never 206.
C10_WholeRange200 ==
    (RangeHandled /\ ClaimedWhole(file_request.range, file_request.size)) =>
        /\ file_response.status = 200
        /\ "Content-Range" \notin DOMAIN file_response.headers

C10_Witness ==
    /\ RangeHandled
    /\ file_pc = "done"
    /\ file_request.method = "GET"
    /\ file_request.size = 2
    /\ file_request.range = RangeHeader("bytes", IntText(0), IntText(3))
    /\ file_stream.ended = "complete"
    /\ file_response.status = 200
    /\ "Content-Range" \notin DOMAIN file_response.headers
    /\ Flatten(file_response.body) = Content(2)

\* The span [start, end) that a request asks of a file of size S, read off
\* the header: the whole file for no header or one that does not parse.
ClaimedSpan(h, S) ==
    IF h.unit # "bytes" \/ h.start_b.kind = "bad" \/ h.end_b.kind = "bad"
    THEN [start |-> 0, end |-> S]
    ELSE IF h.start_b.kind = "int" /\ h.end_b.kind = "int"
    THEN [start |-> h.start_b.n, end |-> IF h.end_b.n + 1 < S THEN h.end_b.n + 1 ELSE S]
    ELSE IF h.start_b.kind = "int" THEN [start |-> h.start_b.n, end |-> S]
    ELSE IF h.end_b.kind = "int"
    THEN [start |-> IF S - h.end_b.n > 0 THEN S - h.end_b.n ELSE 0, end |-> S]
    ELSE [start |-> 0, end |-> S]

\* C11: a GET or HEAD of a file of size S answered neither 304 nor 416 has
\* Content-Length equal to the length of the span served (S without a Range
\* header, end - start for a satisfiable range); a 206 has a span with
\* 0 <= start < end <= S that is shorter than S and the header
\* "Content-Range: bytes start-(end-1)/S"; a GET that runs to its end has
\* written the bytes of that span.
C11_ContentLengthOfSpan ==
    (RangeHandled /\ file_response.status # 416) =>
        LET S == file_request.size
            span == ClaimedSpan(file_request.range, S)
        IN  /\ file_response.status \in {200, 206}
            /\ file_response.headers["Content-Length"] = span.end - span.start
            /\ file_request.range = NoHeader =>
                   /\ file_response.status = 200
                   /\ file_response.headers["Content-Length"] = S
            /\ file_response.status = 206 =>
                   /\ 0 <= span.start /\ span.start < span.end /\ span.end <= S
                   /\ span.end - span.start < S
                   /\ file_response.headers["Content-Range"] =
                          [unit |-> "bytes", first |-> span.start,
                           last |-> span.end - 1, size |-> S]
            /\ file_stream.ended = "complete" =>
                   Flatten(file_response.body) =
                       SubSeq(Content(S), span.start + 1, span.end)
            /\ file_request.method = "HEAD" => file_response.body = <<>>

C11_Witness ==
    /\ RangeHandled
    /\ file_request.size = 3
    /\ file_request.range = RangeHeader("bytes", IntText(1), IntText(1))
    /\ file_response.status = 206
    /\ file_response.headers["Content-Length"] = 1
    /\ file_response.headers["Content-Range"] =
           [unit |-> "bytes", first |-> 1, last |-> 1, size |-> 3]
    /\ file_stream.ended = "complete"
    /\ Flatten(file_response.body) = <<2>>

(***************************************************************************)
(* Claims about the definitions of the registry.                           *)
(***************************************************************************)
LocalRegistered ==
    /\ last.op = "register_local_handler"
    /\ last.outcome \in {"registered", "raised"}

\* The RPC method names of a local registration of several HTTP methods:
\* <method>_<last segment>, prefixed by the other segments of the URI.
LocalMethodNames(uri, request_methods) ==
    [i \in 1..Len(request_methods) |->
        DotJoin(Front(uri.segs) \o <<Lower(request_methods[i]) \o "_" \o Last(uri.segs)>>)]

\* C12: a local registration with more than one HTTP method has exactly one
\* RPC method name per HTTP method, <method>_<last segment> prefixed by the
\* other segments, so that the two counts are equal; a local registration
\* whose counts differ fails with a configuration error and creates no
\* definition.
C12_OneNamePerMethod ==
    /\ (LocalRegistered /\ Len(last.request_methods) > 1) =>
           /\ Len(last.def.jrpc_methods) = Len(last.request_methods)
           /\ last.def.jrpc_methods = LocalMethodNames(last.def.uri, last.request_methods)
           /\ last.def.request_methods = last.request_methods
    /\ LocalRegistered => Len(last.def.jrpc_methods) = Len(last.request_methods)
    /\ (last.op = "register_local_handler" /\ last.outcome = "config_error") =>
           /\ Len(last.request_methods) # 1
           /\ last.endpoint \notin DOMAIN api_cache

(***************************************************************************)
(* Claims about the conversion of hinted arguments.                        *)
(***************************************************************************)
\* What int, float, lower() == "true" and json.loads make of a raw value;
\* the raw string where they fail.
ExpectedConversion(hint, raw) ==
    CASE hint = "int" /\ raw = "5" -> [t |-> "int", v |-> "5"]
      [] hint = "float" /\ raw = "5" -> [t |-> "float", v |-> "5.0"]
      [] hint = "bool" -> [t |-> "bool", v |-> IF raw = "true" THEN "true" ELSE "false"]
      [] hint = "json" /\ raw = "5" -> [t |-> "int", v |-> "5"]
      [] hint = "json" /\ raw = "true" -> [t |-> "bool", v |-> "true"]
      [] OTHER -> [t |-> "str", v |-> raw]

\* The request gives its arguments by the query string alone and is
\* parsed in default mode.
QueryOnlyParsed ==
    /\ dyn_pc = "parsed"
    /\ ~request.need_object_parser
    /\ request.content_type = ""
    /\ request.path_kwargs = <<>>

\* C13: in default mode the argument k of a key "k:h", h one of int, float,
\* bool, json, is the converted value when the conversion succeeds and the
\* raw string when it fails; an unknown hint keeps the raw string; none of
\* these raises.  (k is given by this key alone, or this key is the last
\* that gives it.)
C13_HintedConversion ==
    QueryOnlyParsed =>
        /\ ~parsed.raised
        /\ \A i \in 1..Len(request.arguments) :
             LET key == request.arguments[i].key
                 raw == request.arguments[i].value
                 k == Front(key)
             IN  (/\ Len(key) = 2
                  /\ \A j \in (i + 1)..Len(request.arguments) :
                       LET other == request.arguments[j].key
                       IN  other # k /\ (Len(other) = 2 => Front(other) # k))
                 => /\ k \in DOMAIN parsed.args
                    /\ parsed.args[k] = ExpectedConversion(Last(key), raw)

C13_Witness ==
    /\ QueryOnlyParsed
    /\ request.arguments =
           <<[key |-> <<"count">>, value |-> "true"],
             [key |-> <<"count", "int">>, value |-> "abc"]>>
    /\ ~parsed.raised
    /\ parsed.args[<<"count">>] = [t |-> "str", v |-> "abc"]

(***************************************************************************)
(* Claims about the failures of the adapters' hooks.                       *)
(***************************************************************************)
\* C14: when an adapter's removal hook fails during remove_handler, the
\* failure does not reach the caller and the removal hook of every other
\* active adapter is still invoked for the definition.
C14_RemovalFailureAbsorbed ==
    (last.op = "remove_handler" /\ last.outcome # "absent") =>
        /\ last.outcome = "removed"
        /\ Range(last.invoked) = Range(api_transports)

(***************************************************************************)
(* Claims about the dispatcher.                                            *)
(***************************************************************************)
MethodDisallowed ==
    /\ http_pc # "idle"
    /\ http_request.method \notin Range(http_request.route.methods)

\* C15: the HTTP method is checked against the route's methods before the
\* connection is looked up, the arguments are parsed or the callback is
\* invoked: a request with a disallowed method is answered 405 and none of
\* get_associated_websocket, parse_args, the local callback and the remote
\* executor is ever invoked for it.
C15_MethodCheckedFirst ==
    MethodDisallowed =>
        /\ http_trace = <<>>
        /\ http_pc \in {"received", "done"}
        /\ http_pc = "done" =>
               /\ http_response.status = 405
               /\ http_response.body.error.code = 405

C15_Witness ==
    /\ MethodDisallowed
    /\ http_pc = "done"
    /\ http_request.method = "GET"
    /\ http_request.route.methods = <<"POST", "DELETE">>
    /\ http_request.arguments # <<>>
    /\ http_request.body.kind = "array"
    /\ http_response.status = 405
    /\ http_trace = <<>>

\* The callback or the remote executor has failed with a ServerError.
DeclaredFault ==
    /\ http_pc = "done"
    /\ http_trace # <<>>
    /\ Last(http_trace).call = "ended"
    /\ Last(http_trace).outcome.kind = "raised"
    /\ Last(http_trace).outcome.exc.type = "ServerError"

\* C16: when the local callback or the remote executor fails with a declared
\* fault of status code c and message m, the response has status c and its
\* error envelope carries the code c and the message m unchanged.
C16_DeclaredFaultVerbatim ==
    DeclaredFault =>
        LET exc == Last(http_trace).outcome.exc
        IN  /\ http_response.status = exc.status_code
            /\ http_response.body.error.code = exc.status_code
            /\ http_response.body.error.message = exc.message.text

\* C17: an error envelope holds a traceback only when the debug flag is
\* enabled; with the flag disabled no error envelope holds one.
C17_TracebackOnlyInDebug ==
    (/\ http_pc = "done"
     /\ "error" \in DOMAIN http_response.body
     /\ ~http_request.serve_traceback)
    => "traceback" \notin DOMAIN http_response.body.error

(***************************************************************************)
(* Claims about the removal from the route table.                          *)
(***************************************************************************)
\* C20: remove_handler pops the pattern from the index before it tries the
\* removal from the rule list, so that when the list removal throws, the
\* exception is absorbed, has_rule(pattern) is false afterwards and a later
\* add_handler of the pattern goes as for an absent pattern (the new rule is
\* appended and indexed); remove_handler of an absent pattern changes
\* neither the index nor the list.
C20_IndexPoppedBeforeList ==
    [][/\ router_last'.op = "remove_handler" =>
              /\ ~has_rule(Router', router_last'.pattern)
              /\ router_last'.threw => rules' = rules
              /\ ~router_last'.present =>
                     /\ pattern_to_rule' = pattern_to_rule
                     /\ rules' = rules
       /\ (/\ router_last'.op = "add_handler"
           /\ ~has_rule(Router, router_last'.pattern)) =>
              /\ has_rule(Router', router_last'.pattern)
              /\ Len(rules') = Len(rules) + 1
              /\ SubSeq(rules', 1, Len(rules)) = rules
              /\ rules'[Len(rules')].id = pattern_to_rule'[router_last'.pattern]
              /\ rules'[Len(rules')].pattern = router_last'.pattern
              /\ ~router_last'.threw]_vars

\* The list removal threw, and the pattern is out of the index.
C20_Witness ==
    /\ router_last.op = "remove_handler"
    /\ router_last.present
    /\ router_last.threw
    /\ ~has_rule(Router, router_last.pattern)

(***************************************************************************)
(* Claims about the registry: duplicates and the derivation of the URIs.   *)
(***************************************************************************)
\* C18: register_remote_handler of an endpoint whose derived URI is already
\* registered is a no-op: the registry, the route table, the list of
\* registered URIs and every transport adapter are as before the call.
C18_DuplicateRemoteNoOp ==
    [][(last'.op = "register_remote_handler" /\ last'.outcome = "duplicate") =>
           /\ api_cache' = api_cache
           /\ pattern_to_rule' = pattern_to_rule
           /\ rules' = rules
           /\ registered_base_handlers' = registered_base_handlers
           /\ handlers' = handlers]_vars

RECURSIVE DottedName(_)
\* The segments of a URI joined by "."
DottedName(segs) ==
    IF Len(segs) = 1 THEN segs[1] ELSE segs[1] \o "." \o DottedName(Tail(segs))

\* The definitions of the registry and those the adapters hold.
Definitions ==
    {api_cache[e] : e \in DOMAIN api_cache} \cup UNION {handlers[n] : n \in DOMAIN handlers}

RemoteDefinition(d) == d.callback = NoCallback

\* C19 as stated: a definition created for a remote endpoint e has the URI
\* /printer/e, one RPC method name (the URI without its leading slash, "."
\* for "/") and the methods GET and POST; a definition created for a local
\* endpoint has the URI /server/<endpoint> or the absolute path given; no
\* two definitions of the registry have the same endpoint key.
C19_UriDerived ==
    /\ \A d \in Definitions :
         IF RemoteDefinition(d)
         THEN /\ d.uri = Abs(<<"printer">> \o d.endpoint.segs)
              /\ d.jrpc_methods = <<DottedName(d.uri.segs)>>
              /\ d.request_methods = <<"GET", "POST">>
         ELSE d.uri = IF d.endpoint.abs THEN d.endpoint
                      ELSE Abs(<<"server">> \o d.endpoint.segs)
    /\ \A e \in DOMAIN api_cache : api_cache[e].endpoint = e

\* C19 amended: as stated, but a remote endpoint that is itself an absolute
\* path has that path as its URI, as a local one has.
C19_UriDerivedOrAbsolute ==
    /\ \A d \in Definitions :
         /\ d.uri = IF d.endpoint.abs THEN d.endpoint
                    ELSE IF RemoteDefinition(d) THEN Abs(<<"printer">> \o d.endpoint.segs)
                    ELSE Abs(<<"server">> \o d.endpoint.segs)
         /\ RemoteDefinition(d) =>
                /\ d.jrpc_methods = <<DottedName(d.uri.segs)>>
                /\ d.request_methods = <<"GET", "POST">>
    /\ \A e \in DOMAIN api_cache : api_cache[e].endpoint = e

C19_Witness ==
    /\ Rel(<<"a">>) \in DOMAIN api_cache
    /\ RemoteDefinition(api_cache[Rel(<<"a">>)])
    /\ api_cache[Rel(<<"a">>)].uri = Abs(<<"printer", "a">>)
    /\ api_cache[Rel(<<"a">>)].jrpc_methods = <<"printer.a">>
    /\ Abs(<<"server", "a">>) \in DOMAIN api_cache
    /\ RemoteDefinition(api_cache[Abs(<<"server", "a">>)])
    /\ api_cache[Abs(<<"server", "a">>)].uri = Abs(<<"server", "a">>)
    /\ api_cache[Abs(<<"server", "a">>)] \in handlers["websocket"]

(***************************************************************************)
(* Claims about the merge of the argument sources.                         *)
(***************************************************************************)
\* The arguments of the query string alone.
QueryArgs(req) ==
    IF req.need_object_parser THEN object_parser(req.arguments)
    ELSE default_parser(req.arguments)

JsonTyped(req) ==
    req.content_type \in {"application/json", " application/json; charset=UTF-8"}

\* The keys and values a JSON body gives: those of an object with a JSON
\* content type, none otherwise.
BodyArgs(req) ==
    IF JsonTyped(req) /\ req.body.kind = "object" THEN req.body.entries ELSE <<>>

\* The path-captured parameters that are not None.
CapturedArgs(req) ==
    [k \in {n \in DOMAIN req.path_kwargs : req.path_kwargs[n].t # "None"} |->
        req.path_kwargs[k]]

\* Path-captured over JSON body over query.
MergedByPrecedence(query, body, captured) ==
    [k \in DOMAIN query \cup DOMAIN body \cup DOMAIN captured |->
        IF k \in DOMAIN captured THEN captured[k]
        ELSE IF k \in DOMAIN body THEN body[k]
        ELSE query[k]]

\* C21: the resolved arguments are the query-derived arguments, over them
\* the values of the JSON body, over both the path-captured parameters that
\* are not None; a key of one source only is kept.
C21_MergePrecedence ==
    (dyn_pc = "parsed" /\ ~parsed.raised) =>
        parsed.args = MergedByPrecedence(QueryArgs(request), BodyArgs(request),
                                         CapturedArgs(request))

C21_Witness ==
    /\ dyn_pc = "parsed"
    /\ ~parsed.raised
    /\ request.arguments = <<[key |-> <<"count", "int">>, value |-> "5"],
                             [key |-> <<"token", "int">>, value |-> "5"]>>
    /\ request.content_type = "application/json"
    /\ request.body = CountBody
    /\ request.path_kwargs = Put(<<>>, <<"count">>, Str("captured"))
    /\ parsed.args[<<"count">>] = Str("captured")
    /\ parsed.args[<<"token">>] = [t |-> "int", v |-> "5"]

\* C22: a request with a JSON content type whose body is malformed never
\* fails in parse_args: the body is ignored and the result is the
\* query-derived arguments with the path-captured parameters applied.
C22_MalformedBodyIgnored ==
    (/\ dyn_pc = "parsed"
     /\ JsonTyped(request)
     /\ request.body.kind \in {"malformed", "undecodable"})
    => /\ ~parsed.raised
       /\ parsed.args = MergedByPrecedence(QueryArgs(request), <<>>,
                                           CapturedArgs(request))

(***************************************************************************)
(* Claims about the body stream of a file.                                 *)
(***************************************************************************)
\* A body stream has been opened for the request.
InStream == file_pc = "streaming" \/ file_stream.ended # "none"

\* The bytes of the span the request selects.
SpanBytes ==
    LET span == ClaimedSpan(file_request.range, file_request.size)
    IN  SubSeq(Content(file_request.size), span.start + 1, span.end)

\* What has been written is made of chunks of at most the chunk size, read
\* in file order from the start of the span; a stream that stops on its own
\* has written the whole span, of the length sent in Content-Length; a
\* stream stopped by a disconnect ends the handler with no error raised.
StreamWellFormed ==
    InStream =>
        LET body == file_response.body
            sent == Flatten(body)
        IN  /\ \A i \in DOMAIN body : Len(body[i]) \in 1..ChunkSize
            /\ Len(sent) <= Len(SpanBytes)
            /\ sent = SubSeq(SpanBytes, 1, Len(sent))
            /\ file_stream.ended \in {"none", "complete", "closed"}
            /\ file_stream.ended = "complete" =>
                   /\ file_pc = "done"
                   /\ sent = SpanBytes
                   /\ Len(sent) = file_response.headers["Content-Length"]
            /\ file_stream.ended = "closed" =>
                   /\ file_pc = "done"
                   /\ file_response.status \in {200, 206}

\* C23: the body stream of a span [start, end) always terminates: it is
\* made of chunks of at most 64 KiB in file order whose total length is
\* end - start, the value of Content-Length, and then it stops; when the
\* peer disconnects mid-transfer the handler stops and returns with no error.
C23_StreamTerminates ==
    /\ []StreamWellFormed
    /\ (file_pc = "streaming") ~>
           (file_pc = "done" /\ file_stream.ended \in {"complete", "closed"})

C23_Witness ==
    /\ file_pc = "done"
    /\ file_stream.ended = "complete"
    /\ Len(file_response.body) = 2
    /\ Len(Flatten(file_response.body)) = file_response.headers["Content-Length"]

(***************************************************************************)
(* Claims about the registry over sequences of calls.                      *)
(***************************************************************************)
\* C24: after any sequence of register_remote_handler, register_local_handler
\* and remove_handler calls, every definition of the registry whose
\* transports include http has a rule in the route table whose pattern is
\* the URI of the definition.
C24_HttpDefinitionsRouted ==
    \A e \in DOMAIN api_cache :
        "http" \in api_cache[e].supported_transports =>
            \E i \in 1..Len(rules) : rules[i].pattern = Pattern(api_cache[e].uri, "")

\* The adapters a registration of the definition notifies.
NotifiedBy(api_def) ==
    {n \in Range(api_transports) : n \in api_def.supported_transports}

\* C25: when remove_handler(endpoint) is followed by a registration of the
\* same endpoint, the endpoint is served again: it is in the registry, its
\* route is installed and the adapters hold its definition.
C25_ReRegistrationServes ==
    [][(/\ last.op = "remove_handler"
        /\ last.outcome = "removed"
        /\ last'.op \in {"register_remote_handler", "register_local_handler"}
        /\ last'.endpoint = last.endpoint
        /\ last'.outcome \notin {"config_error", "raised"})
       => /\ last'.outcome = "registered"
          /\ last.endpoint \in DOMAIN api_cache'
          /\ last'.http =>
                 \E i \in 1..Len(rules') :
                     rules'[i].pattern = Pattern(api_cache'[last.endpoint].uri, "")
          /\ \A n \in NotifiedBy(api_cache'[last.endpoint]) :
                 api_cache'[last.endpoint] \in handlers'[n]]_vars

\* C26: no two definitions of the registry have the same URI, so that
\* remove_handler(e), which removes the rule of the URI of e, removes the
\* rule of no other endpoint.
C26_UrisDistinct ==
    \A e1, e2 \in DOMAIN api_cache :
        api_cache[e1].uri = api_cache[e2].uri => e1 = e2

\* C27: the removal hook of an adapter is invoked only for a definition the
\* adapter was given: an adapter that the transports of the definition
\* exclude is not asked to remove it.
C27_RemovalOnlyWhereGiven ==
    (last.op = "remove_handler" /\ last.outcome \in {"removed", "raised"}) =>
        \A i \in DOMAIN last.invoked :
            last.invoked[i] \in last.def.supported_transports

\* C29: a register_local_handler that fails the check of the method counts
\* leaves the registry, the route table, the list of registered URIs and
\* the adapters as they were, and a registration of the same URI that
\* passes the check, made next, takes place.
C29_FailedRegistrationLeavesNoTrace ==
    [][/\ (last'.op = "register_local_handler" /\ last'.outcome = "config_error")
          => /\ api_cache' = api_cache
             /\ pattern_to_rule' = pattern_to_rule
             /\ rules' = rules
             /\ registered_base_handlers' = registered_base_handlers
             /\ api_transports' = api_transports
             /\ handlers' = handlers
       /\ (/\ last.op = "register_local_handler"
           /\ last.outcome = "config_error"
           /\ last'.op = "register_local_handler"
           /\ last'.endpoint = last.endpoint
           /\ last'.outcome # "config_error")
          => /\ last'.outcome \in {"registered", "raised"}
             /\ last.endpoint \in DOMAIN api_cache'
             /\ last.endpoint \in registered_base_handlers'
             /\ last'.http =>
                    \E i \in 1..Len(rules') :
                        rules'[i].pattern = Pattern(last.endpoint, "")]_vars

\* A failed registration made on an application that serves endpoints.
C29_Witness ==
    /\ last.op = "register_local_handler"
    /\ last.outcome = "config_error"
    /\ last.endpoint = Abs(<<"server", "a">>)
    /\ api_cache # <<>>
    /\ registered_base_handlers # {}
    /\ last.endpoint \notin registered_base_handlers
    /\ last.endpoint \notin DOMAIN api_cache

(***************************************************************************)
(* Claims about the order of the steps of an upload.                       *)
(***************************************************************************)
\* C28: for one upload request finalize_upload is invoked at most once,
\* only when the body has been received whole and the checksum has been
\* compared, and never when a supplied checksum differs, compared without
\* regard to case, from the digest of the file part.
C28_FinalizeOnceAfterCheck ==
    /\ Len(finalize_calls) <= 1
    /\ up_pc # "done" => finalize_calls = <<>>
    /\ finalize_calls # <<>> =>
           /\ finalize_calls[1].args["tmp_file_path"] = <<TmpName>>
           /\ targets["checksum"] # <<>> =>
                  CaseInsensitiveEqual(targets["checksum"], Sha256Hex(sha256_target))
    /\ UploadMismatch => finalize_calls = <<>>

\* An upload whose checksum, in upper case, is the digest of its file part.
C28_Witness ==
    /\ up_pc = "done"
    /\ sha256_target # <<>>
    /\ targets["checksum"] # <<>>
    /\ targets["checksum"] # Sha256Hex(sha256_target)
    /\ CaseInsensitiveEqual(targets["checksum"], Sha256Hex(sha256_target))
    /\ Len(finalize_calls) = 1

(***************************************************************************)
(* Claims about the order of the route table.                              *)
(***************************************************************************)
\* The rules of rs under a pattern other than p, in table order.
OtherRules(rs, p) == SelectSeq(rs, LAMBDA rule : rule.pattern # p)

\* C30: add_handler of a pattern that has a rule puts the new rule at the
\* end of the table and keeps the order of the other rules; add_handler of
\* a new pattern appends the rule; the rule that replaces another is so
\* matched after every rule that was added before the replacement.
C30_ReplacementGoesLast ==
    [][router_last'.op = "add_handler" =>
           LET p == router_last'.pattern
               n == Len(rules')
           IN  /\ n >= 1
               /\ rules'[n].id = router_last'.id
               /\ rules'[n].pattern = p
               /\ rules'[n].target = router_last'.target
               /\ SubSeq(rules', 1, n - 1) = OtherRules(rules, p)
               /\ ~router_last'.present => rules' = Append(rules, rules'[n])
               /\ \A i \in 1..(n - 1) : rules'[i].id < rules'[n].id
               /\ \A path \in RouterPaths :
                      (\E i \in 1..(n - 1) : Matches(rules'[i].pattern, path))
                          => find_handler(rules', path) # rules'[n]]_vars

\* A rule was replaced that had a rule added after it: the new rule is
\* last, behind the rule that was behind the one it replaces.
C30_Witness ==
    /\ router_last.op = "add_handler"
    /\ router_last.present
    /\ Len(rules) >= 2
    /\ rules[Len(rules)].id = router_last.id
    /\ \E old \in replaced :
         /\ old.pattern = router_last.pattern
         /\ \E i \in 1..(Len(rules) - 1) : rules[i].id > old.id
    /\ \E path \in RouterPaths :
         /\ Matches(router_last.pattern, path)
         /\ find_handler(rules, path).id # router_last.id

=============================================================================
